---- MODULE Spec2Model ----
(***************************************************************************)
(* Quarry Ops: the user store, the owner-scoped domain tables and the      *)
(* derived time computations of src/app.py and src/db.py.                  *)
(*                                                                         *)
(* Every browser session runs the script of app.py from the top on each    *)
(* interaction: init_db(), then the login page or the selected page.  The  *)
(* sessions share one SQLite database.  Each db.py function opens its own  *)
(* connection and commits once, so one function call is one transaction.   *)
(*                                                                         *)
(* A page is one step: the insert of its form, if submitted, and then the  *)
(* fetch_all calls that fill its lists.  init_db and create_user are split *)
(* at their INSERT, where other sessions can interleave.  clear_all_data   *)
(* is one step per DELETE and one for its commit: its connection holds     *)
(* SQLite's write lock from the first DELETE to the commit, so the INSERTs *)
(* of other connections wait, while their SELECTs go on reading the        *)
(* committed rows.  Timestamps                                             *)
(* (created_at, timestamp, last_updated) and the free-text and numeric     *)
(* form fields that no operation reads back are left out of the rows.      *)
(***************************************************************************)
EXTENDS Integers, Sequences, FiniteSets, TLC

\* ------------------------------------------------------------------------
\* Bounds of the model
\* ------------------------------------------------------------------------
MaxMinute == 1     \* minutes 0..MaxMinute (plus 30 and 59) are entered
MaxInserts == 2    \* domain rows inserted over a whole run, all tables

\* ------------------------------------------------------------------------
\* Time helpers (app.py)
\* ------------------------------------------------------------------------
Hours12 == 1..12
Minutes == (0..MaxMinute) \cup {30, 59}
Meridiems == {"AM", "PM"}
ClockInputs == [hour : Hours12, minute : Minutes, meridiem : Meridiems]
Clock(h, m, ap) == [hour |-> h, minute |-> m, meridiem |-> ap]

\* f"{n:02d}": the decimal digits of n, zero-padded to two
TwoDigits(n) == IF n < 10 THEN <<0, n>> ELSE <<n \div 10, n % 10>>

\* convert_to_24h without the `hour != 12` and 12 AM cases
ConvertAlwaysAdds12(hour, minute, meridiem) ==
    LET h == IF meridiem = "PM" THEN hour + 12 ELSE hour
    IN  TwoDigits(h) \o TwoDigits(minute) \o <<0, 0>>

\* the string "HH:MM:00" as its six digits (the colons are fixed)
convert_to_24h(hour, minute, meridiem) ==
    LET h1 == IF meridiem = "PM" /\ hour # 12 THEN hour + 12 ELSE hour
        h2 == IF meridiem = "AM" /\ h1 = 12 THEN 0 ELSE h1
    IN  TwoDigits(h2) \o TwoDigits(minute) \o <<0, 0>>

\* datetime.strptime(s, "%H:%M:%S"): seconds since midnight, or -1 where
\* strptime raises ValueError
Strptime(s) ==
    LET h  == s[1] * 10 + s[2]
        m  == s[3] * 10 + s[4]
        sc == s[5] * 10 + s[6]
    IN  IF Len(s) = 6 /\ h <= 23 /\ m <= 59 /\ sc <= 61
        THEN h * 3600 + m * 60 + sc
        ELSE -1

\* round(x, 4) of x = secs / 3600 hours, as a count of 1/10000 hours.
\* secs * 10000 / 3600 = secs * 25 / 9 is never half-way between two
\* integers, so rounding is to the nearest one.
Round4Hours(secs) == (2 * secs * 25 + 9) \div 18

\* calculate_running_time without max(diff, 0)
RunningTimeUnclamped(start_24, end_24) ==
    LET t1 == Strptime(start_24)
        t2 == Strptime(end_24)
    IN  IF t1 < 0 \/ t2 < 0 THEN 0
        ELSE IF t2 >= t1 THEN Round4Hours(t2 - t1)
        ELSE 0 - Round4Hours(t1 - t2)

\* hours from start to end, clamped at 0, in units of 1/10000 hour
calculate_running_time(start_24, end_24) ==
    LET t1 == Strptime(start_24)
        t2 == Strptime(end_24)
        diff == t2 - t1
    IN  IF t1 < 0 \/ t2 < 0 THEN 0
        ELSE Round4Hours(IF diff > 0 THEN diff ELSE 0)

\* ------------------------------------------------------------------------
\* Password hasher (werkzeug.security, used by db.py)
\* ------------------------------------------------------------------------
None == "<None>"                       \* Python's None
Truthy(x) == x # None /\ x # ""        \* `if x:` for an optional string

AdminName == "Admin"                   \* db.py:109
AdminPassword == "ad_01"               \* db.py:112
\* usernames typed into the forms; SQLite compares them byte for byte
SignupNames == {"", AdminName, "admin"}
SignupPasswords == {"", "pw"}
Passwords == {"", AdminPassword, "pw"}
\* the salt generate_password_hash draws
Salts == {3}

PasswordCode(pw) == CASE pw = "" -> 0 [] pw = AdminPassword -> 1 [] OTHER -> 2

\* the salted one-way digest: distinct passwords give distinct digests
\* under one salt
Digest(salt, pw) == (salt * 7 + PasswordCode(pw) * 3 + 1) % 11

generate_password_hash(pw, salt) == [salt |-> salt, digest |-> Digest(salt, pw)]

check_password_hash(pwhash, pw) == pwhash.digest = Digest(pwhash.salt, pw)

\* ------------------------------------------------------------------------
\* State
\* ------------------------------------------------------------------------
Sessions == {"s1", "s2"}
TableNames == {"production", "equipment", "inventory", "workers", "environment"}
DashboardTables == {"production", "equipment", "inventory", "environment"}

NoUser == [id |-> 0, username |-> None, role |-> None]
LoggedOut == [logged_in |-> FALSE, user |-> NoUser]
NoPending == [username |-> None, password_hash |-> [salt |-> 0, digest |-> 0],
              role |-> None]

VARIABLES
    users,      \* rows of the users table
    tables,     \* TableNames -> rows of that domain table
    autoinc,    \* sqlite_sequence: table -> largest id ever assigned
    auth,       \* session -> st.session_state['auth']
    pc,         \* session -> position of its current script run
    pending,    \* session -> locals of a create_user call in progress
    last,       \* the most recent step and what it showed its session
    calc,       \* the time helpers applied to one pair of clock inputs
    txn         \* the open write transaction of clear_all_data, if any

vars == <<users, tables, autoinc, auth, pc, pending, last, calc, txn>>

\* what a step shows its session: a message, or the lists of a page rendered
\* for `caller`; a step that shows nothing leaves Quiet
NoLists == [t \in {} |-> <<>>]
Shown(outcome, caller, kind, lists) ==
    [outcome |-> outcome, caller |-> caller, kind |-> kind, lists |-> lists]
Message(outcome) == Shown(outcome, NoUser, "message", NoLists)
Quiet == Message("")

\* no connection holds the write lock
NoTxn == [owner |-> None, deleted |-> {}]

\* the write lock is free: an INSERT can go ahead
WriteLockFree == txn.owner = None

CalcRecord(p, start, end, start_24, end_24, hours) ==
    [pc |-> p, start |-> start, end |-> end, start_24 |-> start_24,
     end_24 |-> end_24, hours |-> hours]
CalcIdle == CalcRecord("idle", Clock(12, 0, "AM"), Clock(12, 0, "AM"), <<>>, <<>>, 0)

\* ------------------------------------------------------------------------
\* db.py
\* ------------------------------------------------------------------------
\* a users table declared without UNIQUE
NoUniqueConstraint(rows, username) == FALSE

\* username TEXT UNIQUE: SQLite compares TEXT with the BINARY collation
UniqueViolation(rows, username) == \E r \in rows : r.username = username

\* id INTEGER PRIMARY KEY AUTOINCREMENT
NextId(table) == autoinc[table] + 1

UserRow(id, username, pwhash, role) ==
    [id |-> id, username |-> username, password_hash |-> pwhash, role |-> role]

\* SELECT ... ORDER BY id DESC
RECURSIVE OrderByIdDesc(_)
OrderByIdDesc(rows) ==
    IF rows = {} THEN <<>>
    ELSE LET top == CHOOSE r \in rows : \A q \in rows : q.id <= r.id
         IN  <<top>> \o OrderByIdDesc(rows \ {top})

\* fetch_all without its WHERE clause
FetchAllUnfiltered(rows, username) == OrderByIdDesc(rows)

\* fetch_all(table, username=None), rows being the rows of that table
fetch_all(rows, username) ==
    IF Truthy(username)
    THEN OrderByIdDesc({r \in rows : r.username = username})
    ELSE OrderByIdDesc(rows)

fetch_users == {r.username : r \in users}

\* authenticate_user without check_password_hash
AuthSkipsPasswordCheck(username, password) ==
    IF ~ \E r \in users : r.username = username
    THEN [ok |-> FALSE, user |-> NoUser, msg |-> "User not found"]
    ELSE LET row == CHOOSE r \in users : r.username = username
         IN  [ok |-> TRUE, msg |-> "",
              user |-> [id |-> row.id, username |-> row.username, role |-> row.role]]

authenticate_user(username, password) ==
    IF ~ \E r \in users : r.username = username
    THEN [ok |-> FALSE, user |-> NoUser, msg |-> "User not found"]
    ELSE LET row == CHOOSE r \in users : r.username = username
         IN  IF check_password_hash(row.password_hash, password)
             THEN [ok |-> TRUE, msg |-> "",
                   user |-> [id |-> row.id, username |-> row.username,
                             role |-> row.role]]
             ELSE [ok |-> FALSE, user |-> NoUser, msg |-> "Invalid password"]

\* clear_all_data with "workers" missing from its list of tables
ClearSkipsWorkers ==
    [t \in TableNames |-> IF t = "workers" THEN tables[t] ELSE {}]

\* the tables after DELETE FROM t for each of the five tables, committed once
clear_all_data == [t \in TableNames |-> {}]

\* tables = [...] of clear_all_data, in the order of its loop
ClearOrder == <<"production", "equipment", "inventory", "workers", "environment">>

\* a connection in autocommit mode: each DELETE is committed as it executes
DeleteAutocommits(t) == [tables EXCEPT ![t] = {}]

\* the committed rows after cur.execute(DELETE FROM t): sqlite3 opened a
\* transaction before the first DELETE, so nothing is committed yet
DeleteInTransaction(t) == tables

\* UPDATE equipment SET ... WHERE equipment_id = ? (app.py never calls it)
update_equipment(equipment_id, status, start_time, end_time, running_time, production_tons) ==
    [tables EXCEPT !["equipment"] =
        {IF r.equipment_id = equipment_id
         THEN [r EXCEPT !.status = status, !.start_time = start_time,
                        !.end_time = end_time, !.running_time = running_time,
                        !.production_tons = production_tons]
         ELSE r : r \in tables["equipment"]}]

\* ------------------------------------------------------------------------
\* app.py: forms and navigation
\* ------------------------------------------------------------------------
\* a Role selectbox that also offers "admin"
SignupRolesWithAdmin == {"user", "admin"}

\* st.selectbox("Role", ["user"])
SignupRoles == {"user"}

AllPages == {"Dashboard", "Production", "Equipment", "Inventory", "Workers",
             "Environment", "Admin", "Logout"}

\* a sidebar that offers every page to every role
NavSameForAll(role) == AllPages

\* the options of the sidebar radio
NavOptions(role) == IF role = "admin" THEN AllPages ELSE AllPages \ {"Admin"}

\* what is typed into the equipment form
EquipmentForms ==
    { [equipment_id |-> "EX-1", status |-> "Running", production_tons |-> 5,
       start |-> Clock(9, 0, "AM"), end |-> Clock(5, 30, "PM")],
      [equipment_id |-> "EX-1", status |-> "Idle", production_tons |-> 0,
       start |-> Clock(2, 0, "PM"), end |-> Clock(9, 0, "AM")],
      [equipment_id |-> "EX-2", status |-> "Running", production_tons |-> 5,
       start |-> Clock(9, 0, "AM"), end |-> Clock(5, 30, "PM")] }

\* what is typed into the workers form
WorkerShift == [start |-> Clock(9, 0, "AM"), end |-> Clock(5, 30, "PM")]

Inserted ==
    autoinc["production"] + autoinc["equipment"] + autoinc["inventory"]
        + autoinc["workers"] + autoinc["environment"]

\* admin sees global, user sees own
ScopedList(rows, user) ==
    IF user.role = "admin"
    THEN fetch_all(rows, None)
    ELSE fetch_all(rows, user.username)

EquipmentRow(id, form, username) ==
    LET start_24 == convert_to_24h(form.start.hour, form.start.minute,
                                   form.start.meridiem)
        end_24 == convert_to_24h(form.end.hour, form.end.minute,
                                 form.end.meridiem)
    IN  [id |-> id, username |-> username,
         equipment_id |-> form.equipment_id, status |-> form.status,
         start_time |-> start_24, end_time |-> end_24,
         running_time |-> calculate_running_time(start_24, end_24),
         production_tons |-> form.production_tons]

WorkerRow(id, username) ==
    LET start_24 == convert_to_24h(WorkerShift.start.hour,
                      WorkerShift.start.minute, WorkerShift.start.meridiem)
        end_24 == convert_to_24h(WorkerShift.end.hour,
                      WorkerShift.end.minute, WorkerShift.end.meridiem)
    IN  [id |-> id, username |-> username, start_time |-> start_24,
         end_time |-> end_24,
         working_hours |-> calculate_running_time(start_24, end_24)]

\* a record built without its "username" key: record.get gives None
PlainRowWithoutOwner(id, username) == [id |-> id, username |-> None]

PlainRow(id, username) == [id |-> id, username |-> username]

\* ------------------------------------------------------------------------
\* Initial state: no database file, every session about to run the script
\* ------------------------------------------------------------------------
Init ==
    /\ users = {}
    /\ tables = [t \in TableNames |-> {}]
    /\ autoinc = [t \in TableNames \cup {"users"} |-> 0]
    /\ auth = [s \in Sessions |-> LoggedOut]
    /\ pc = [s \in Sessions |-> "start"]
    /\ pending = [s \in Sessions |-> NoPending]
    /\ last = Quiet
    /\ calc = CalcIdle
    /\ txn = NoTxn

\* ------------------------------------------------------------------------
\* init_db(), run at the top of every script run
\* ------------------------------------------------------------------------
\* CREATE TABLE IF NOT EXISTS ...; SELECT id FROM users WHERE username='Admin'
InitDbSelect(s) ==
    /\ pc[s] = "start"
    /\ LET existing == \E r \in users : r.username = AdminName
       IN  /\ pc' = [pc EXCEPT ![s] = IF existing THEN "page" ELSE "init_insert"]
           /\ last' = Quiet
    /\ UNCHANGED <<users, tables, autoinc, auth, pending, calc, txn>>

\* the default-admin INSERT into a users table that accepts a second "Admin"
InitDbInsertNoExistenceCheck(s) ==
    /\ pc[s] = "init_insert"
    /\ WriteLockFree
    /\ \E salt \in Salts :
          /\ users' = users \cup
                {UserRow(NextId("users"), AdminName,
                         generate_password_hash(AdminPassword, salt), "admin")}
          /\ autoinc' = [autoinc EXCEPT !["users"] = NextId("users")]
          /\ last' = Quiet
    /\ pc' = [pc EXCEPT ![s] = "page"]
    /\ UNCHANGED <<tables, auth, pending, calc, txn>>

\* INSERT INTO users ... ('Admin', hash, 'admin'); any exception is ignored
InitDbInsert(s) ==
    /\ pc[s] = "init_insert"
    /\ WriteLockFree
    /\ \E salt \in Salts :
          IF UniqueViolation(users, AdminName)
          THEN /\ UNCHANGED <<users, autoinc>>
               /\ last' = Quiet
          ELSE /\ users' = users \cup
                     {UserRow(NextId("users"), AdminName,
                              generate_password_hash(AdminPassword, salt), "admin")}
               /\ autoinc' = [autoinc EXCEPT !["users"] = NextId("users")]
               /\ last' = Quiet
    /\ pc' = [pc EXCEPT ![s] = "page"]
    /\ UNCHANGED <<tables, auth, pending, calc, txn>>

\* ------------------------------------------------------------------------
\* login_page()
\* ------------------------------------------------------------------------
Login(s, username, password) ==
    /\ pc[s] = "page"
    /\ ~ auth[s].logged_in
    /\ LET res == authenticate_user(username, password)
       IN  /\ auth' = IF res.ok
                      THEN [auth EXCEPT ![s] = [logged_in |-> TRUE, user |-> res.user]]
                      ELSE auth
           /\ last' = IF res.ok THEN Shown("Welcome", res.user, "message", NoLists)
                      ELSE Message(res.msg)
    /\ pc' = [pc EXCEPT ![s] = "start"]
    /\ UNCHANGED <<users, tables, autoinc, pending, calc, txn>>

\* the signup form is submitted; create_user hashes the password
SignupSubmit(s, new_user, new_pass) ==
    /\ pc[s] = "page"
    /\ ~ auth[s].logged_in
    /\ IF new_user = "" \/ new_pass = ""
       THEN /\ last' = Message("Provide username and password")
            /\ pc' = [pc EXCEPT ![s] = "start"]
            /\ UNCHANGED pending
       ELSE \E salt \in Salts, role \in SignupRoles :
            /\ pending' = [pending EXCEPT ![s] =
                   [username |-> new_user, role |-> role,
                    password_hash |-> generate_password_hash(new_pass, salt)]]
            /\ pc' = [pc EXCEPT ![s] = "create_user"]
            /\ last' = Quiet
    /\ UNCHANGED <<users, tables, autoinc, auth, calc, txn>>

\* create_user's INSERT INTO users and commit, or its IntegrityError
CreateUserInsert(s) ==
    /\ pc[s] = "create_user"
    /\ WriteLockFree
    /\ LET p == pending[s]
       IN  IF UniqueViolation(users, p.username)
           THEN /\ UNCHANGED <<users, autoinc>>
                /\ last' = Message("Username already exists")
           ELSE /\ users' = users \cup
                      {UserRow(NextId("users"), p.username, p.password_hash, p.role)}
                /\ autoinc' = [autoinc EXCEPT !["users"] = NextId("users")]
                /\ last' = Message("User created")
    /\ pending' = [pending EXCEPT ![s] = NoPending]
    /\ pc' = [pc EXCEPT ![s] = "start"]
    /\ UNCHANGED <<tables, auth, calc, txn>>

\* ------------------------------------------------------------------------
\* Pages of a logged-in session
\* ------------------------------------------------------------------------
\* a main flow that dispatches on the page without testing logged_in
OnPageWithoutLogin(s, page) ==
    /\ pc[s] = "page"
    /\ page \in NavOptions(auth[s].user.role)

\* the else branch of `if not st.session_state['auth']["logged_in"]`
OnPage(s, page) ==
    /\ pc[s] = "page"
    /\ auth[s].logged_in
    /\ page \in NavOptions(auth[s].user.role)

dashboard_page(s) ==
    /\ OnPage(s, "Dashboard")
    /\ last' = Shown("viewed", auth[s].user, "list",
                     [t \in DashboardTables |-> ScopedList(tables[t], auth[s].user)])
    /\ pc' = [pc EXCEPT ![s] = "start"]
    /\ UNCHANGED <<users, tables, autoinc, auth, pending, calc, txn>>

\* a page with a form whose submit inserts `row`, followed by the page's list
FormPage(s, page, table, save, row) ==
    /\ OnPage(s, page)
    /\ IF save
       THEN /\ Inserted < MaxInserts
            /\ WriteLockFree
            /\ tables' = [tables EXCEPT ![table] = @ \cup {row}]
            /\ autoinc' = [autoinc EXCEPT ![table] = NextId(table)]
       ELSE UNCHANGED <<tables, autoinc>>
    /\ last' = Shown(IF save THEN "saved" ELSE "viewed", auth[s].user, "list",
                     [t \in {table} |-> ScopedList(tables'[t], auth[s].user)])
    /\ pc' = [pc EXCEPT ![s] = "start"]
    /\ UNCHANGED <<users, auth, pending, calc, txn>>

production_page(s, save) ==
    FormPage(s, "Production", "production", save,
             PlainRow(NextId("production"), auth[s].user.username))

\* `Save Equipment` always calls insert_equipment
equipment_page(s, save, form) ==
    /\ OnPage(s, "Equipment")
    /\ IF save
       THEN /\ Inserted < MaxInserts
            /\ WriteLockFree
            /\ tables' = [tables EXCEPT !["equipment"] = @ \cup
                   {EquipmentRow(NextId("equipment"), form, auth[s].user.username)}]
            /\ autoinc' = [autoinc EXCEPT !["equipment"] = NextId("equipment")]
       ELSE UNCHANGED <<tables, autoinc>>
    /\ last' = Shown(IF save THEN "saved" ELSE "viewed", auth[s].user, "list",
                     [t \in {"equipment"} |-> ScopedList(tables'[t], auth[s].user)])
    /\ pc' = [pc EXCEPT ![s] = "start"]
    /\ UNCHANGED <<users, auth, pending, calc, txn>>

inventory_page(s, save) ==
    FormPage(s, "Inventory", "inventory", save,
             PlainRow(NextId("inventory"), auth[s].user.username))

workers_page(s, save) ==
    FormPage(s, "Workers", "workers", save,
             WorkerRow(NextId("workers"), auth[s].user.username))

environment_page(s, save) ==
    FormPage(s, "Environment", "environment", save,
             PlainRow(NextId("environment"), auth[s].user.username))

\* fetch_all(table, username) for every user and table
Breakdown ==
    [k \in fetch_users \X TableNames |-> fetch_all(tables[k[2]], k[1])]

\* the per-user breakdown, then the Clear DB button, which calls
\* clear_all_data
admin_page(s, clear) ==
    /\ OnPage(s, "Admin")
    /\ last' = Shown("viewed", auth[s].user, "breakdown", Breakdown)
    /\ pc' = [pc EXCEPT ![s] = IF clear THEN "clearing" ELSE "start"]
    /\ UNCHANGED <<users, tables, autoinc, auth, pending, calc, txn>>

\* cur.execute(DELETE FROM t) for the next table of the loop; the first one
\* takes the write lock
ClearDelete(s) ==
    /\ pc[s] = "clearing"
    /\ txn.owner \in {None, s}
    /\ Cardinality(txn.deleted) < Len(ClearOrder)
    /\ LET t == ClearOrder[Cardinality(txn.deleted) + 1]
       IN  /\ tables' = DeleteInTransaction(t)
           /\ txn' = [owner |-> s, deleted |-> txn.deleted \cup {t}]
    /\ last' = Quiet
    /\ UNCHANGED <<users, autoinc, auth, pc, pending, calc>>

\* conn.commit(): the deletes become visible together; st.success, st.rerun.
\* The step records the rows it removed, per user and table.
ClearCommit(s) ==
    /\ pc[s] = "clearing"
    /\ txn.owner = s
    /\ Cardinality(txn.deleted) = Len(ClearOrder)
    /\ tables' = clear_all_data
    /\ txn' = NoTxn
    /\ last' = Shown("cleared", auth[s].user, "breakdown", Breakdown)
    /\ pc' = [pc EXCEPT ![s] = "start"]
    /\ UNCHANGED <<users, autoinc, auth, pending, calc>>

\* page == "Logout": the Sign out button calls logout()
logout_page(s, sign_out) ==
    /\ OnPage(s, "Logout")
    /\ auth' = IF sign_out THEN [auth EXCEPT ![s] = LoggedOut] ELSE auth
    /\ last' = Quiet
    /\ pc' = [pc EXCEPT ![s] = "start"]
    /\ UNCHANGED <<users, tables, autoinc, pending, calc, txn>>

Next ==
    \E s \in Sessions :
        \/ InitDbSelect(s)
        \/ InitDbInsert(s)
        \/ \E u \in SignupNames, p \in Passwords : Login(s, u, p)
        \/ \E u \in SignupNames, p \in SignupPasswords : SignupSubmit(s, u, p)
        \/ CreateUserInsert(s)
        \/ dashboard_page(s)
        \/ \E save \in BOOLEAN : production_page(s, save)
        \/ \E save \in BOOLEAN, form \in EquipmentForms : equipment_page(s, save, form)
        \/ \E save \in BOOLEAN : inventory_page(s, save)
        \/ \E save \in BOOLEAN : workers_page(s, save)
        \/ \E save \in BOOLEAN : environment_page(s, save)
        \/ \E clear \in BOOLEAN : admin_page(s, clear)
        \/ ClearDelete(s)
        \/ ClearCommit(s)
        \/ \E sign_out \in BOOLEAN : logout_page(s, sign_out)

Spec == Init /\ [][Next]_vars

\* ------------------------------------------------------------------------
\* The time helpers on their own: the start and end inputs of the equipment
\* (and workers) form, converted and then subtracted
\* ------------------------------------------------------------------------
TimeInit ==
    /\ users = {}
    /\ tables = [t \in TableNames |-> {}]
    /\ autoinc = [t \in TableNames \cup {"users"} |-> 0]
    /\ auth = [s \in Sessions |-> LoggedOut]
    /\ pc = [s \in Sessions |-> "start"]
    /\ pending = [s \in Sessions |-> NoPending]
    /\ last = Quiet
    /\ txn = NoTxn
    /\ \E start \in ClockInputs, end \in ClockInputs :
          calc = CalcRecord("input", start, end, <<>>, <<>>, 0)

\* start_24 = convert_to_24h(...); end_24 = convert_to_24h(...)
ConvertInputs ==
    /\ calc.pc = "input"
    /\ calc' = [calc EXCEPT
          !.pc = "converted",
          !.start_24 = convert_to_24h(calc.start.hour, calc.start.minute,
                                      calc.start.meridiem),
          !.end_24 = convert_to_24h(calc.end.hour, calc.end.minute,
                                    calc.end.meridiem)]
    /\ UNCHANGED <<users, tables, autoinc, auth, pc, pending, last, txn>>

\* running_hours = calculate_running_time(start_24, end_24)
ComputeRunningTime ==
    /\ calc.pc = "converted"
    /\ calc' = [calc EXCEPT
          !.pc = "done",
          !.hours = calculate_running_time(calc.start_24, calc.end_24)]
    /\ UNCHANGED <<users, tables, autoinc, auth, pc, pending, last, txn>>

TimeNext == ConvertInputs \/ ComputeRunningTime

TimeSpec == TimeInit /\ [][TimeNext]_vars

\* ========================================================================
\* Properties
\* ========================================================================
Abs(x) == IF x < 0 THEN 0 - x ELSE x

\* the clock time "HH:MM:SS" read as seconds since midnight
ClockSeconds(t) == (t[1] * 10 + t[2]) * 3600 + (t[3] * 10 + t[4]) * 60 + t[5] * 10 + t[6]

\* C9: for clock times start and end produced by the 24-hour conversion, the
\* elapsed time is exactly 0 whenever end <= start, and otherwise it is
\* (end - start) in hours rounded to 4 decimal places (hours are counted in
\* units of 1/10000 hour); 09:00:00 to 17:30:00 gives 8.5 and 14:00:00 to
\* 09:00:00 gives 0.0.
C9_ElapsedClampedAndRounded ==
    calc.pc = "done" =>
        LET d == ClockSeconds(calc.end_24) - ClockSeconds(calc.start_24)
        IN  /\ d <= 0 => calc.hours = 0
            /\ d > 0 => 2 * Abs(calc.hours * 3600 - d * 10000) <= 3600
            /\ (calc.start_24 = <<0, 9, 0, 0, 0, 0>> /\ calc.end_24 = <<1, 7, 3, 0, 0, 0>>)
                   => calc.hours = 85000
            /\ (calc.start_24 = <<1, 4, 0, 0, 0, 0>> /\ calc.end_24 = <<0, 9, 0, 0, 0, 0>>)
                   => calc.hours = 0

\* an overnight span has been computed and clamped
C9_Witness ==
    /\ calc.pc = "done"
    /\ calc.start = Clock(2, 0, "PM")
    /\ calc.end = Clock(9, 0, "AM")
    /\ calc.start_24 = <<1, 4, 0, 0, 0, 0>>
    /\ calc.end_24 = <<0, 9, 0, 0, 0, 0>>
    /\ calc.hours = 0

\* the hour the conversion is documented to give
ExpectedHour(c) ==
    IF c.hour = 12 THEN (IF c.meridiem = "AM" THEN 0 ELSE 12)
    ELSE IF c.meridiem = "PM" THEN c.hour + 12 ELSE c.hour

ConvertedAs(c, t) ==
    /\ Len(t) = 6
    /\ t[1] * 10 + t[2] = ExpectedHour(c)
    /\ t[1] \in 0..2 /\ t[2] \in 0..9 /\ t[3] \in 0..5 /\ t[4] \in 0..9
    /\ t[1] * 10 + t[2] \in 0..23
    /\ t[3] * 10 + t[4] = c.minute
    /\ t[5] = 0 /\ t[6] = 0

\* C10: for hour in 1..12, minute in 0..59 and meridiem in {AM, PM} the
\* conversion maps 12 AM to hour 0, 12 PM to hour 12, any other PM hour h to
\* h+12 and any other AM hour h to h, keeps the minute, and is a bijection
\* onto {0..23} x minutes: distinct inputs give distinct outputs, every
\* output lies in the target and the target has as many elements as there
\* are inputs.
C10_ConversionBijective ==
    calc.pc \in {"converted", "done"} =>
        /\ ConvertedAs(calc.start, calc.start_24)
        /\ ConvertedAs(calc.end, calc.end_24)
        /\ calc.start_24 = calc.end_24 => calc.start = calc.end
        /\ Cardinality(ClockInputs) = Cardinality((0..23) \X Minutes)

\* midnight and noon have both been converted
C10_Witness ==
    /\ calc.pc = "converted"
    /\ calc.start = Clock(12, 0, "AM") /\ calc.start_24 = <<0, 0, 0, 0, 0, 0>>
    /\ calc.end = Clock(12, 0, "PM") /\ calc.end_24 = <<1, 2, 0, 0, 0, 0>>

SeqRows(list) == {list[i] : i \in 1..Len(list)}

\* C1: every list of a domain table shown to a logged-in caller whose role is
\* not admin contains only rows whose owner username equals the caller's
\* username; the same list shown to a caller whose role is admin contains
\* every row of the table, rows owned by other users included.
C1_ListsAreOwnerScoped ==
    last.kind = "list" =>
        \A t \in DOMAIN last.lists :
            IF last.caller.role = "admin"
            THEN SeqRows(last.lists[t]) = tables[t]
            ELSE \A r \in SeqRows(last.lists[t]) : r.username = last.caller.username

\* a non-admin caller is shown a non-empty list of a table that also holds a
\* row of another user
C1_Witness ==
    /\ last.kind = "list"
    /\ last.caller.role = "user"
    /\ \E t \in DOMAIN last.lists :
          /\ Len(last.lists[t]) >= 1
          /\ \E r \in tables[t] : r.username # last.caller.username

UsernamesUnique == \A r1, r2 \in users : r1.username = r2.username => r1 = r2

\* C2: a create_user call with a username that already exists (compared case
\* sensitively) fails with "Username already exists" and leaves the users
\* table unchanged, a call with a new username adds exactly that user, and
\* usernames are unique in every reachable state, also when create_user
\* calls of several sessions interleave.
C2_CreateUserRejectsDuplicates ==
    /\ []UsernamesUnique
    /\ [][\A s \in Sessions :
            CreateUserInsert(s) =>
               IF \E r \in users : r.username = pending[s].username
               THEN /\ users' = users
                    /\ last'.outcome = "Username already exists"
               ELSE /\ \E r \in users' : /\ users' = users \cup {r}
                                         /\ r \notin users
                                         /\ r.username = pending[s].username
                    /\ last'.outcome = "User created"]_vars

\* a signup was rejected as a duplicate while "Admin" and "admin" both exist
C2_Witness ==
    /\ last.outcome = "Username already exists"
    /\ \E r \in users : r.username = "admin"
    /\ \E r \in users : r.username = AdminName

WithEquipmentId(rows, equipment_id) == {r \in rows : r.equipment_id = equipment_id}

\* C3: saving equipment twice with the same equipment_id: the first save
\* creates exactly one equipment row; a later save mutates that same row (its
\* id is unchanged; status, time window, running time and production total
\* are those of the later save), so the number of equipment rows with that
\* equipment_id stays at 1.
C3_EquipmentUpsertByBusinessKey ==
    [][\A s \in Sessions, form \in EquipmentForms :
          equipment_page(s, TRUE, form) =>
             LET before == WithEquipmentId(tables["equipment"], form.equipment_id)
                 after == WithEquipmentId(tables'["equipment"], form.equipment_id)
                 saved == EquipmentRow(0, form, None)
             IN  /\ Cardinality(after) = 1
                 /\ before # {} => {r.id : r \in after} = {r.id : r \in before}
                 /\ \A r \in after :
                       /\ r.status = form.status
                       /\ r.start_time = saved.start_time
                       /\ r.end_time = saved.end_time
                       /\ r.running_time = saved.running_time
                       /\ r.production_tons = form.production_tons]_vars

\* C4: from any reachable state, clear_all_data leaves all five domain tables
\* empty and leaves the users table unchanged.
C4_ClearEmptiesTablesKeepsUsers ==
    [][last'.outcome = "cleared" =>
          /\ \A t \in TableNames : tables'[t] = {}
          /\ users' = users]_vars

\* the clear removed rows of two users, and all five tables are now empty
C4_Witness ==
    /\ last.outcome = "cleared"
    /\ Cardinality({k[1] : k \in {j \in DOMAIN last.lists : last.lists[j] # <<>>}}) = 2
    /\ Cardinality(users) = 2
    /\ \A t \in TableNames : tables[t] = {}

\* the session that takes the step
Acts(s) == pc'[s] # pc[s]

IsAdminAccount(user) ==
    \E r \in users : r.id = user.id /\ r.username = user.username /\ r.role = "admin"

AdminAccounts == {r \in users : r.role = "admin"}

\* C6: every account created by signup has role user, no account's role (or
\* username) ever changes, no account is ever deleted, and the only account
\* with role admin is the bootstrap one.
C6_SignupRoleIsUser ==
    /\ [](/\ \A r \in AdminAccounts : r.username = AdminName
          /\ Cardinality(AdminAccounts) <= 1)
    /\ [][/\ \A r \in users : \E q \in users' :
                q.id = r.id /\ q.username = r.username /\ q.role = r.role
          /\ \A s \in Sessions :
                CreateUserInsert(s) => \A r \in users' \ users : r.role = "user"]_vars

\* a signup has just created an account, which has role user, next to the
\* bootstrap admin
C6_Witness ==
    /\ last.outcome = "User created"
    /\ \E r \in users : r.username = "admin" /\ r.role = "user"
    /\ \E r \in users : r.username = AdminName /\ r.role = "admin"

\* C7: authenticate gives "User not found" when no user row has the username,
\* "Invalid password" when the row exists but the password does not verify
\* against its stored hash, and otherwise succeeds with the stored id,
\* username and role of that row; it never changes the users table.
C7_AuthenticateOutcomes ==
    [][\A s \in Sessions, u \in SignupNames, p \in Passwords :
          Login(s, u, p) =>
             /\ users' = users
             /\ IF ~ \E r \in users : r.username = u
                THEN /\ last'.outcome = "User not found"
                     /\ auth'[s] = LoggedOut
                ELSE \E r \in users :
                       /\ r.username = u
                       /\ IF check_password_hash(r.password_hash, p)
                          THEN /\ last'.outcome = "Welcome"
                               /\ auth'[s].logged_in
                               /\ auth'[s].user = [id |-> r.id, username |-> r.username,
                                                   role |-> r.role]
                          ELSE /\ last'.outcome = "Invalid password"
                               /\ auth'[s] = LoggedOut]_vars

\* a login with a wrong password was refused while the other session is
\* logged in
C7_Witness ==
    /\ last.outcome = "Invalid password"
    /\ \E s \in Sessions : auth[s].logged_in
    /\ \E s \in Sessions : ~ auth[s].logged_in

\* C8: initialization creates exactly one administrator account, with the
\* fixed username, when no administrator account exists, and none when one
\* exists; repeated or interleaved initializations leave the users they found
\* plus at most that one account, and a script run gets past init_db only
\* with the administrator account in place.
C8_BootstrapCreatesOneAdmin ==
    /\ [](/\ Cardinality(AdminAccounts) <= 1
          /\ \A s \in Sessions : pc[s] \in {"page", "create_user"} => AdminAccounts # {})
    /\ [][\A s \in Sessions :
            /\ InitDbSelect(s) => users' = users
            /\ InitDbInsert(s) =>
                  IF AdminAccounts # {}
                  THEN users' = users
                  ELSE \E r \in users' :
                         /\ r \notin users
                         /\ users' = users \cup {r}
                         /\ r.username = AdminName
                         /\ r.role = "admin"]_vars

\* a session that found no admin is about to insert one, after the other
\* session's initialization has created it
C8_Witness ==
    /\ \E s \in Sessions : pc[s] = "init_insert"
    /\ \E s \in Sessions : pc[s] = "page"
    /\ Cardinality(AdminAccounts) = 1

\* C11: under concurrent equipment submissions for the same equipment_id, at
\* most one equipment row per equipment_id ever exists: two submissions never
\* both insert a row.
C11_OneRowPerEquipmentId ==
    \A r1, r2 \in tables["equipment"] :
        r1.equipment_id = r2.equipment_id => r1 = r2

\* the rows of a table that the scoping lets `caller` see
VisibleRows(rows, caller) ==
    {r \in rows : caller.role = "admin" \/ r.username = caller.username}

StepOf(s) == pc'[s] # pc[s] \/ (txn' # txn /\ txn'.owner = s)

IsAccount(user) ==
    \E r \in users : r.id = user.id /\ r.username = user.username /\ r.role = user.role

\* a domain insert, a domain list or a step of the clear
DomainStoreCall ==
    \/ \E t \in TableNames : tables'[t] # tables[t]
    \/ last'.kind \in {"list", "breakdown"}
    \/ txn' # txn

\* C13: a domain insert, a domain list or the clear happens only in a step
\* of a session that is logged in with a user of the users table; a session
\* becomes logged in only by a successful authenticate, as the user it
\* returned; a session that is not logged in holds no user, so after a failed
\* login or a logout no domain-store call is reachable before the next
\* successful login.
C13_DomainCallsNeedLogin ==
    /\ [](\A s \in Sessions : ~ auth[s].logged_in =>
              auth[s] = LoggedOut /\ pc[s] # "clearing")
    /\ [][\A s \in Sessions :
            /\ (StepOf(s) /\ DomainStoreCall) =>
                  auth[s].logged_in /\ IsAccount(auth[s].user)
            /\ (auth'[s].logged_in /\ auth'[s] # auth[s]) =>
                  /\ ~ auth[s].logged_in
                  /\ last'.outcome = "Welcome"
                  /\ last'.caller = auth'[s].user
                  /\ IsAccount(auth'[s].user)]_vars

\* a login has just failed and nobody is logged in, after a session had
\* logged in, inserted a row and logged out
C13_Witness ==
    /\ last.outcome \in {"Invalid password", "User not found"}
    /\ \A s \in Sessions : ~ auth[s].logged_in
    /\ \E t \in TableNames : tables[t] # {}

\* C14: every row of the five domain tables carries as owner username the
\* username of the caller logged in when the row was inserted, admins
\* included, and that username names a row of the users table.
C14_WritesStampOwner ==
    /\ [](\A t \in TableNames : \A r \in tables[t] :
              \E u \in users : u.username = r.username)
    /\ [][\A s \in Sessions :
            StepOf(s) =>
               \A t \in TableNames : \A r \in tables'[t] \ tables[t] :
                   auth[s].logged_in /\ r.username = auth[s].user.username]_vars

\* the admin has just saved a row, which it owns, next to a row owned by the
\* user "admin"
C14_Witness ==
    /\ last.outcome = "saved"
    /\ last.caller.role = "admin"
    /\ \E t \in TableNames : \E r \in tables[t] : r.username = AdminName
    /\ \E t \in TableNames : \E r \in tables[t] : r.username = "admin"

====
